---- MODULE Spec2Model ----
(***************************************************************************)
(* Conway's Game of Life, src/main.go: the grid built by makeCells, the    *)
(* two-pass generation step getNextState with its neighbour count          *)
(* aliveNeighbors, and the driver loop of main (draw, getNextState, ...).  *)
(*                                                                         *)
(* Go slices are 0-based, TLA+ sequences 1-based: the cell the code calls  *)
(* cells[i][j] is cells[i+1][j+1] here (operator At).                      *)
(***************************************************************************)
EXTENDS Integers, Sequences, FiniteSets

VARIABLES
    rows,      \* the constant rows    (main.go:18)
    columns,   \* the constant columns (main.go:19)
    cells,     \* the [][]*cell of main, a sequence of sequences of cell records
    pc,        \* where main is: "makeCells", "loop", "getNextState", "pass1",
               \* "pass2", "panic" (index out of range), "closed"
    k,         \* cells already visited by the running pass of getNextState
    pre,       \* history: <<cells>> as they were when getNextState was last entered
    frame,     \* <<set of drawables rendered by the last draw>>, <<>> before the first
    done       \* order-free traversal only: coordinates the running pass has visited

vars == <<rows, columns, cells, pc, k, pre, frame, done>>

\* Largest row/column count of the configurations explored (the source has 30).
MaxDim == 3

\* Largest grid side explored by the order-free traversal.
ParDim == 3

\* The value aliveNeighbors yields when an index expression is out of range.
PANIC == 0 - 1

----------------------------------------------------------------------------
(* The grid *)

At(cs, i, j) == cs[i + 1][j + 1]

InRange(cs, i, j) ==
    /\ i >= 0 /\ i < Len(cs)
    /\ j >= 0 /\ j < Len(cs[i + 1])

\* Faulty variant: the literal also sets aliveNext.
newCellNextSet(x, y, alive) ==
    [drawable |-> x * columns + y + 1, alive |-> alive, aliveNext |-> TRUE,
     x |-> x, y |-> y]

\* rand.Intn(2) == 1 is the argument alive; makeVao returns a fresh handle,
\* modelled as the ordinal of the cell's creation. aliveNext is not named in
\* the literal and so is false.
newCell(x, y, alive) ==
    [drawable |-> x * columns + y + 1, alive |-> alive, aliveNext |-> FALSE,
     x |-> x, y |-> y]

\* make([][]*cell, rows) and, for x < rows, y < columns, append(cells[x], newCell(x, y)).
makeCells(bits) ==
    [x1 \in 1..rows |-> [y1 \in 1..columns |-> newCell(x1 - 1, y1 - 1, bits[x1 - 1, y1 - 1])]]

\* The coordinates makeCells creates cells for, and the random draws it makes.
MadeCoords == (0..(rows - 1)) \X (0..(columns - 1))

\* for x := range cells { for y := range cells[x] { ... } }: the visiting order.
RECURSIVE OrderFrom(_, _)
OrderFrom(cs, x) ==
    IF x >= Len(cs) THEN <<>>
    ELSE [y1 \in 1..Len(cs[x + 1]) |-> <<x, y1 - 1>>] \o OrderFrom(cs, x + 1)

Order(cs) == OrderFrom(cs, 0)

\* The coordinates of the cells the grid holds.
Coords(cs) == UNION {{<<x1 - 1, y1 - 1>> : y1 \in 1..Len(cs[x1])} : x1 \in 1..Len(cs)}

----------------------------------------------------------------------------
(* aliveNeighbors *)

\* Faulty variant: a toroidal grid, indices wrapping to the opposite edge.
AccessedWrap(x, y) ==
    {<<i % columns, j % rows>> : <<i, j>> \in
        {p \in ((x - 1)..(x + 1)) \X ((y - 1)..(y + 1)) : ~(p[1] = x /\ p[2] = y)}}

\* The index pairs (i, j) the two loops reach without hitting `continue`.
Accessed(x, y) ==
    {p \in ((x - 1)..(x + 1)) \X ((y - 1)..(y + 1)) :
        ~((p[1] = x /\ p[2] = y) \/ p[1] < 0 \/ p[2] < 0
            \/ p[1] >= columns \/ p[2] >= rows)}

\* Faulty variant: the count starts by resetting the scratch field of its cell.
aliveNeighborsResets(cs, x, y) == [cs EXCEPT ![x + 1][y + 1].aliveNext = FALSE]

\* The grid as a call of aliveNeighbors leaves it: its body assigns to count,
\* i and j only, to no cell and to no slice.
aliveNeighborsLeaves(cs, x, y) == cs

\* count of the accessed cells that are alive; cells[i][j] out of range panics.
aliveNeighbors(cs, x, y) ==
    IF \E p \in Accessed(x, y) : ~InRange(cs, p[1], p[2]) THEN PANIC
    ELSE Cardinality({p \in Accessed(x, y) : At(cs, p[1], p[2]).alive})

----------------------------------------------------------------------------
(* getNextState *)

\* Faulty variant: the empty case is missing, a dead cell falls to default.
DecideNoEmptyCase(c, n) ==
    IF ~c.alive /\ n = 3 THEN TRUE
    ELSE IF c.alive /\ (n < 2 \/ n > 3) THEN FALSE
    ELSE TRUE

\* Faulty variant: the default case is empty as well.
DecideDefaultEmpty(c, n) ==
    IF ~c.alive /\ n = 3 THEN TRUE
    ELSE IF ~c.alive THEN c.aliveNext
    ELSE IF c.alive /\ (n < 2 \/ n > 3) THEN FALSE
    ELSE c.aliveNext

\* Faulty variant: overpopulation starts at 5 neighbours.
DecideLate(c, n) ==
    IF ~c.alive /\ n = 3 THEN TRUE
    ELSE IF ~c.alive THEN c.aliveNext
    ELSE IF c.alive /\ (n < 2 \/ n > 4) THEN FALSE
    ELSE TRUE

\* The switch of the first pass: the value c.aliveNext holds after it. The
\* case `!c.alive` is empty and leaves the field as it is.
Decide(c, n) ==
    IF ~c.alive /\ n = 3 THEN TRUE
    ELSE IF ~c.alive THEN c.aliveNext
    ELSE IF c.alive /\ (n < 2 \/ n > 3) THEN FALSE
    ELSE TRUE

\* Faulty variant: a single buffer, the decision stored in alive at once.
Pass1CellInPlace(cs, x, y) ==
    LET v == Decide(At(cs, x, y), aliveNeighbors(cs, x, y))
    IN  [cs EXCEPT ![x + 1][y + 1].aliveNext = v, ![x + 1][y + 1].alive = v]

\* One iteration of the first loop nest, for a cell whose count did not panic:
\* the call of aliveNeighbors, then the switch on the grid the call left.
Pass1Cell(cs, x, y) ==
    LET after == aliveNeighborsLeaves(cs, x, y)
    IN  [after EXCEPT ![x + 1][y + 1].aliveNext =
            Decide(At(after, x, y), aliveNeighbors(cs, x, y))]

\* Faulty variant: the commit stores a new cell holding the next state only.
Pass2CellReplace(cs, x, y) ==
    [cs EXCEPT ![x + 1][y + 1] =
        [drawable |-> 0, alive |-> At(cs, x, y).aliveNext, aliveNext |-> FALSE,
         x |-> 0, y |-> 0]]

\* Faulty variant: the commit also clears the scratch field.
Pass2CellClear(cs, x, y) ==
    [cs EXCEPT ![x + 1][y + 1].alive = At(cs, x, y).aliveNext,
               ![x + 1][y + 1].aliveNext = FALSE]

\* One iteration of the second loop nest: c.alive = c.aliveNext.
Pass2Cell(cs, x, y) ==
    [cs EXCEPT ![x + 1][y + 1].alive = At(cs, x, y).aliveNext]

\* The first loop nest from its n-th iteration on; ok is FALSE when it panics.
RECURSIVE RunPass1(_, _, _)
RunPass1(cs, ord, n) ==
    IF n > Len(ord) THEN [ok |-> TRUE, cells |-> cs]
    ELSE IF aliveNeighbors(cs, ord[n][1], ord[n][2]) = PANIC
         THEN [ok |-> FALSE, cells |-> cs]
         ELSE RunPass1(Pass1Cell(cs, ord[n][1], ord[n][2]), ord, n + 1)

RECURSIVE RunPass2(_, _, _)
RunPass2(cs, ord, n) ==
    IF n > Len(ord) THEN cs
    ELSE RunPass2(Pass2Cell(cs, ord[n][1], ord[n][2]), ord, n + 1)

\* The whole call, in the order the code traverses the grid.
getNextState(cs) ==
    LET p1 == RunPass1(cs, Order(cs), 1)
    IN  IF p1.ok THEN [ok |-> TRUE, cells |-> RunPass2(p1.cells, Order(cs), 1)]
        ELSE p1

----------------------------------------------------------------------------
(* main *)

\* The configuration as shipped: rows = columns (30 and 30 in the source), a
\* positive number. With it no index is out of range; SpecDims below drops
\* the equality.
Init ==
    /\ rows \in 1..MaxDim
    /\ columns = rows
    /\ cells = <<>>
    /\ pc = "makeCells"
    /\ k = 0
    /\ pre = <<>>
    /\ frame = <<>>
    /\ done = {}

\* cells := makeCells()
MakeCells ==
    /\ pc = "makeCells"
    /\ \E bits \in [MadeCoords -> BOOLEAN] : cells' = makeCells(bits)
    /\ pc' = "loop"
    /\ UNCHANGED <<rows, columns, k, pre, frame, done>>

\* for !window.ShouldClose(): the window was closed.
Close ==
    /\ pc = "loop"
    /\ pc' = "closed"
    /\ UNCHANGED <<rows, columns, cells, k, pre, frame, done>>

\* What draw renders: c.draw() for every cell with c.alive.
Rendered(cs) ==
    {At(cs, p[1], p[2]).drawable : p \in {q \in Coords(cs) : At(cs, q[1], q[2]).alive}}

InAdvance == pc \in {"pass1", "pass2"}

\* Faulty variant: draw running beside a getNextState started with a go
\* statement.
DrawConcurrent ==
    /\ pc \in {"loop", "pass1", "pass2"}
    /\ frame' = <<Rendered(cells)>>
    /\ pc' = IF pc = "loop" THEN "getNextState" ELSE pc
    /\ UNCHANGED <<rows, columns, cells, k, pre, done>>

\* Faulty variant: the loop stops drawing and advancing once a generation
\* equals the one before it.
DrawUnlessStable ==
    /\ pc = "loop"
    /\ ~(pre # <<>> /\ cells = pre[1])
    /\ frame' = <<Rendered(cells)>>
    /\ pc' = "getNextState"
    /\ UNCHANGED <<rows, columns, cells, k, pre, done>>

\* The loop condition held; draw(cells, window, program).
Draw ==
    /\ pc = "loop"
    /\ frame' = <<Rendered(cells)>>
    /\ pc' = "getNextState"
    /\ UNCHANGED <<rows, columns, cells, k, pre, done>>

\* Faulty variant: the loop body advances twice, one whole generation and then
\* the call that follows.
CallTwice ==
    /\ pc = "getNextState"
    /\ cells' = getNextState(cells).cells
    /\ pre' = <<cells'>>
    /\ k' = 0
    /\ pc' = IF Order(cells) = <<>> THEN "loop" ELSE "pass1"
    /\ UNCHANGED <<rows, columns, frame, done>>

\* getNextState(cells) is entered; a grid without cells makes both loop nests empty.
Call ==
    /\ pc = "getNextState"
    /\ pre' = <<cells>>
    /\ k' = 0
    /\ pc' = IF Order(cells) = <<>> THEN "loop" ELSE "pass1"
    /\ UNCHANGED <<rows, columns, cells, frame, done>>

\* One iteration of the first loop nest. cells[i][j] with an index out of range
\* is a run-time panic, which ends the program.
Pass1 ==
    /\ pc = "pass1"
    /\ LET ord == Order(cells)
           p == ord[k + 1]
       IN  IF aliveNeighbors(cells, p[1], p[2]) = PANIC
           THEN pc' = "panic" /\ UNCHANGED <<cells, k>>
           ELSE /\ cells' = Pass1Cell(cells, p[1], p[2])
                /\ IF k + 1 = Len(ord)
                   THEN pc' = "pass2" /\ k' = 0
                   ELSE pc' = "pass1" /\ k' = k + 1
    /\ UNCHANGED <<rows, columns, pre, frame, done>>

\* One iteration of the second loop nest; after the last, getNextState returns,
\* main sleeps and tests the loop condition again.
Pass2 ==
    /\ pc = "pass2"
    /\ LET ord == Order(cells)
           p == ord[k + 1]
       IN  /\ cells' = Pass2Cell(cells, p[1], p[2])
           /\ IF k + 1 = Len(ord)
              THEN pc' = "loop" /\ k' = 0
              ELSE pc' = "pass2" /\ k' = k + 1
    /\ UNCHANGED <<rows, columns, pre, frame, done>>

Next == MakeCells \/ Close \/ Draw \/ Call \/ Pass1 \/ Pass2

Spec == Init /\ [][Next]_vars

\* Any configuration of the two constants, zero included.
InitDims ==
    /\ rows \in 0..MaxDim
    /\ columns \in 0..MaxDim
    /\ cells = <<>>
    /\ pc = "makeCells"
    /\ k = 0
    /\ pre = <<>>
    /\ frame = <<>>
    /\ done = {}

SpecDims == InitDims /\ [][Next]_vars

----------------------------------------------------------------------------
(* The two passes with the cells of a pass taken in any order: the per-cell   *)
(* steps of getNextState handed to workers, a barrier between the passes.     *)

InitPar ==
    /\ rows \in 1..ParDim
    /\ columns = rows
    /\ cells = <<>>
    /\ pc = "makeCells"
    /\ k = 0
    /\ pre = <<>>
    /\ frame = <<>>
    /\ done = {}

ParCall ==
    /\ pc = "loop"
    /\ pre' = <<cells>>
    /\ done' = {}
    /\ pc' = IF Coords(cells) = {} THEN "loop" ELSE "par1"
    /\ UNCHANGED <<rows, columns, cells, k, frame>>

\* Some worker runs the body of the first loop nest for a cell not yet visited;
\* the barrier opens when every cell has been.
ParPass1 ==
    /\ pc = "par1"
    /\ \E p \in Coords(cells) \ done :
        IF aliveNeighbors(cells, p[1], p[2]) = PANIC
        THEN pc' = "panic" /\ UNCHANGED <<cells, done>>
        ELSE /\ cells' = Pass1Cell(cells, p[1], p[2])
             /\ IF done \cup {p} = Coords(cells)
                THEN pc' = "par2" /\ done' = {}
                ELSE pc' = "par1" /\ done' = done \cup {p}
    /\ UNCHANGED <<rows, columns, k, pre, frame>>

\* Some worker runs the body of the second loop nest for a cell not yet copied.
ParPass2 ==
    /\ pc = "par2"
    /\ \E p \in Coords(cells) \ done :
        /\ cells' = Pass2Cell(cells, p[1], p[2])
        /\ IF done \cup {p} = Coords(cells)
           THEN pc' = "loop" /\ done' = {}
           ELSE pc' = "par2" /\ done' = done \cup {p}
    /\ UNCHANGED <<rows, columns, k, pre, frame>>

NextPar == MakeCells \/ ParCall \/ ParPass1 \/ ParPass2

SpecPar == InitPar /\ [][NextPar]_vars

----------------------------------------------------------------------------
(* The rule and the neighbourhood as the specification words them, and the    *)
(* predicates the properties below share.                                     *)

Abs(n) == IF n < 0 THEN 0 - n ELSE n

\* The cells of the grid in the 3x3 block centred on (x, y), the centre excluded.
Moore(cs, x, y) ==
    {p \in ((x - 1)..(x + 1)) \X ((y - 1)..(y + 1)) :
        p # <<x, y>> /\ InRange(cs, p[1], p[2])}

LiveMoore(cs, x, y) == Cardinality({p \in Moore(cs, x, y) : At(cs, p[1], p[2]).alive})

\* B3/S23: the decision table.
Rule(alive, n) == IF alive THEN n \in {2, 3} ELSE n = 3

AllDead(cs) == \A x1 \in 1..Len(cs) : \A y1 \in 1..Len(cs[x1]) : ~cs[x1][y1].alive

\* Two grids of one shape whose cells agree on alive at every coordinate.
SameAlive(cs, ds) ==
    /\ Len(cs) = Len(ds)
    /\ \A x1 \in 1..Len(cs) :
        /\ Len(cs[x1]) = Len(ds[x1])
        /\ \A y1 \in 1..Len(cs[x1]) : cs[x1][y1].alive = ds[x1][y1].alive

\* A call of getNextState has returned and the next has not been entered.
Returned == pc \in {"loop", "closed", "getNextState"} /\ pre # <<>>

IsCorner(cs, x, y) == x \in {0, Len(cs) - 1} /\ y \in {0, Len(cs[x + 1]) - 1}

IsBorder(cs, x, y) == x \in {0, Len(cs) - 1} \/ y \in {0, Len(cs[x + 1]) - 1}

\* The cell the first pass is about to visit.
Cur == Order(cells)[k + 1]

----------------------------------------------------------------------------
(* C1: after a completed getNextState every cell is alive exactly when, on    *)
(* the alive values the whole grid had when the call was entered, it was dead *)
(* with exactly 3 live neighbours or alive with 2 or 3; otherwise it is dead. *)
C1_RuleApplied ==
    Returned =>
        \A p \in Coords(cells) :
            At(cells, p[1], p[2]).alive
                = Rule(At(pre[1], p[1], p[2]).alive, LiveMoore(pre[1], p[1], p[2]))

\* A returned call in which a birth, a survival, a death by underpopulation
\* and a death by overpopulation all happened.
C1_Witness ==
    /\ Returned
    /\ \E p \in Coords(cells) :
        ~At(pre[1], p[1], p[2]).alive /\ At(cells, p[1], p[2]).alive
    /\ \E p \in Coords(cells) :
        At(pre[1], p[1], p[2]).alive /\ At(cells, p[1], p[2]).alive
    /\ \E p \in Coords(cells) :
        /\ At(pre[1], p[1], p[2]).alive /\ ~At(cells, p[1], p[2]).alive
        /\ LiveMoore(pre[1], p[1], p[2]) < 2
    /\ \E p \in Coords(cells) :
        /\ At(pre[1], p[1], p[2]).alive /\ ~At(cells, p[1], p[2]).alive
        /\ LiveMoore(pre[1], p[1], p[2]) > 3

(* C2: aliveNeighbors(cells, x, y) is the number of alive cells among the     *)
(* Moore neighbours of (x, y) that lie inside the grid, (x, y) excluded,      *)
(* nothing wrapping to the opposite edge: at most 3 for a corner cell, at     *)
(* most 5 for another border cell, at most 8 for any cell. Checked for every  *)
(* cell of every grid between calls and for the cell each call is made for.   *)
C2_CountAt(x, y) ==
    LET n == aliveNeighbors(cells, x, y)
    IN  /\ n = LiveMoore(cells, x, y)
        /\ n <= 8
        /\ IsBorder(cells, x, y) => n <= 5
        /\ IsCorner(cells, x, y) => n <= 3

C2_NeighbourCount ==
    /\ pc = "loop" => \A p \in Coords(cells) : C2_CountAt(p[1], p[2])
    /\ pc = "pass1" => C2_CountAt(Cur[1], Cur[2])

\* The call for corner (0, 0) of a 3x3 grid whose other three corners and three
\* neighbours are alive returns 3.
C2_Witness ==
    /\ pc = "pass1" /\ k = 0 /\ rows = 3
    /\ At(cells, 2, 2).alive /\ At(cells, 0, 2).alive /\ At(cells, 2, 0).alive
    /\ aliveNeighbors(cells, 0, 0) = 3

(* C3: with the cells of the first pass taken in any order, a barrier, and    *)
(* the cells of the second pass taken in any order, every cell ends with the  *)
(* alive value the sequential traversal of getNextState gives it; the count   *)
(* a cell's decision used is the count on the grid as the call found it,      *)
(* whichever cells were visited before it.                                    *)
C3_OrderIndependent ==
    /\ pc = "par1" =>
        \A p \in done :
            At(cells, p[1], p[2]).aliveNext
                = Decide(At(pre[1], p[1], p[2]), aliveNeighbors(pre[1], p[1], p[2]))
    /\ (pc = "loop" /\ pre # <<>>) =>
        /\ getNextState(pre[1]).ok
        /\ SameAlive(cells, getNextState(pre[1]).cells)

\* An order-free advance has completed in which one cell was born and one died.
C3_Witness ==
    /\ pc = "loop" /\ pre # <<>> /\ done = {}
    /\ \E p \in Coords(cells) :
        ~At(pre[1], p[1], p[2]).alive /\ At(cells, p[1], p[2]).alive
    /\ \E p \in Coords(cells) :
        At(pre[1], p[1], p[2]).alive /\ ~At(cells, p[1], p[2]).alive

(* C4: for a grid built by makeCells with any positive rows and columns,      *)
(* equal or not, every cells[i][j] of aliveNeighbors and getNextState has i   *)
(* inside the outer slice and j inside that inner slice: no call panics.      *)
C4_InBounds ==
    (rows >= 1 /\ columns >= 1 /\ pc # "makeCells") =>
        /\ pc # "panic"
        /\ \A p \in Coords(cells) : \A q \in Accessed(p[1], p[2]) :
            InRange(cells, q[1], q[2])

(* C5: draw reads the grid only between calls of getNextState: the frame it   *)
(* rendered is always a whole generation, the one the running or the last     *)
(* call started from or, right after draw, the current one, never a grid in   *)
(* which only some cells have been committed.                                 *)
C5_DrawBetweenAdvances ==
    /\ pc = "getNextState" => frame = <<Rendered(cells)>>
    /\ InAdvance => frame = <<Rendered(pre[1])>>
    /\ pc \in {"loop", "closed"} =>
        IF pre = <<>> THEN frame = <<>> ELSE frame = <<Rendered(pre[1])>>

\* The second pass has committed some cells, the grid differs from the frame.
C5_Witness ==
    /\ pc = "pass2" /\ k > 0
    /\ frame # <<>>
    /\ frame # <<Rendered(cells)>>
    /\ ~SameAlive(cells, getNextState(pre[1]).cells)

(* C6: the alive values after getNextState depend on the alive values before  *)
(* it alone. Every assignment of alive values is the grid makeCells can have  *)
(* just built, so it is enough that the outcome for any reachable grid is the *)
(* outcome for the freshly built grid that agrees with it on alive.           *)
FreshTwin(cs) == makeCells([p \in MadeCoords |-> At(cs, p[1], p[2]).alive])

C6_DependsOnAliveOnly ==
    Returned =>
        /\ getNextState(FreshTwin(pre[1])).ok
        /\ SameAlive(cells, getNextState(FreshTwin(pre[1])).cells)

\* A returned call whose grid was not fresh (a cell had aliveNext set) and
\* which left some cell alive.
C6_Witness ==
    /\ Returned
    /\ pre[1] # FreshTwin(pre[1])
    /\ ~AllDead(cells)

(* C7: getNextState on a grid whose cells are all dead leaves them all dead,  *)
(* in every state of the call and after it, hence after any number of calls.  *)
C7_AllDeadStays ==
    (pre # <<>> /\ AllDead(pre[1])) => AllDead(cells)

\* A call on an all-dead 3x3 grid has returned.
C7_Witness ==
    /\ Returned /\ rows = 3
    /\ AllDead(pre[1]) /\ AllDead(cells)

C9_FirstPassKeepsAlive ==
    /\ pc = "pass1" => SameAlive(cells, pre[1])
    /\ (pc = "pass2" /\ k = 0) =>
        \A p \in Coords(cells) :
            At(cells, p[1], p[2]).aliveNext
                = Rule(At(pre[1], p[1], p[2]).alive, LiveMoore(pre[1], p[1], p[2]))
    /\ pc = "pass2" =>
        LET ord == Order(cells)
        IN  \A n \in 1..Len(ord) :
                LET c == At(cells, ord[n][1], ord[n][2])
                IN  c.alive = IF n <= k THEN c.aliveNext
                              ELSE At(pre[1], ord[n][1], ord[n][2]).alive

\* The first pass has stored an aliveNext that differs from the cell's alive.
C9_Witness ==
    /\ pc = "pass1" /\ k > 0
    /\ \E p \in Coords(cells) :
        At(cells, p[1], p[2]).aliveNext # At(cells, p[1], p[2]).alive

(* C10: getNextState produces in every cell the alive and aliveNext values of *)
(* the variant whose branch for a dead cell with a count other than 3 sets    *)
(* aliveNext = false, from the freshly built grid on.                         *)
DecideExplicit(c, n) ==
    IF ~c.alive /\ n = 3 THEN TRUE
    ELSE IF ~c.alive THEN FALSE
    ELSE IF c.alive /\ (n < 2 \/ n > 3) THEN FALSE
    ELSE TRUE

RECURSIVE RunPass1Explicit(_, _, _)
RunPass1Explicit(cs, ord, n) ==
    IF n > Len(ord) THEN cs
    ELSE LET x == ord[n][1]
             y == ord[n][2]
         IN  RunPass1Explicit(
                 [cs EXCEPT ![x + 1][y + 1].aliveNext =
                     DecideExplicit(At(cs, x, y), aliveNeighbors(cs, x, y))],
                 ord, n + 1)

getNextStateExplicit(cs) == RunPass2(RunPass1Explicit(cs, Order(cs), 1), Order(cs), 1)

C10_EmptyBranchIsFalse ==
    /\ Returned => cells = getNextStateExplicit(pre[1])
    /\ pc = "pass1" =>
        Decide(At(cells, Cur[1], Cur[2]), aliveNeighbors(cells, Cur[1], Cur[2]))
            = DecideExplicit(At(cells, Cur[1], Cur[2]),
                             aliveNeighbors(cells, Cur[1], Cur[2]))

\* The first call on a fresh grid (an alive cell whose aliveNext was unset) has
\* returned, and a dead cell with a count other than 3 took the empty branch.
C10_Witness ==
    /\ Returned
    /\ \E p \in Coords(cells) :
        At(pre[1], p[1], p[2]).alive /\ ~At(pre[1], p[1], p[2]).aliveNext
    /\ \E p \in Coords(cells) :
        ~At(pre[1], p[1], p[2]).alive /\ LiveMoore(pre[1], p[1], p[2]) # 3

(* C11: after initialization, for all positive rows R and columns C, the grid *)
(* holds exactly one cell for every (x, y) with x in [0, C) and y in [0, R),  *)
(* every cell stores its own position, and advances keep it so.               *)
StoredCoords(cs) == {<<At(cs, p[1], p[2]).x, At(cs, p[1], p[2]).y>> : p \in Coords(cs)}

C11_OneCellPerCoordinate ==
    (rows >= 1 /\ columns >= 1 /\ pc # "makeCells") =>
        /\ StoredCoords(cells) = (0..(columns - 1)) \X (0..(rows - 1))
        /\ Cardinality(Coords(cells)) = rows * columns
        /\ \A p \in Coords(cells) :
            At(cells, p[1], p[2]).x = p[1] /\ At(cells, p[1], p[2]).y = p[2]

(* C12: the engine has no terminal state. Until the window is closed main  *)
(* can always take a step, no call panics, and at the head of the loop the   *)
(* next draw and the next getNextState follow whatever the grid is, a fixed  *)
(* point such as the all-dead grid included: nothing detects one.            *)
C12_NoTerminalState ==
    /\ pc # "panic"
    /\ pc # "closed" => ENABLED Next
    /\ pc = "loop" => ENABLED Draw
    /\ pc = "getNextState" => ENABLED Call /\ getNextState(cells).ok

\* getNextState has been entered again on a grid with live cells that the
\* call before it left as it was.
C12_Witness ==
    /\ pc = "pass1"
    /\ ~AllDead(pre[1])
    /\ frame = <<Rendered(pre[1])>>
    /\ pre[1] = getNextState(pre[1]).cells

(* C13: getNextState changes the alive and aliveNext fields only: x, y and    *)
(* drawable of every cell, the number of rows, the length of every row and    *)
(* the cell at each position are what they were when the call was entered,    *)
(* in every state of the call and after it, hence what makeCells built.       *)
Fixed(cs) ==
    [x1 \in 1..Len(cs) |->
        [y1 \in 1..Len(cs[x1]) |->
            [drawable |-> cs[x1][y1].drawable, x |-> cs[x1][y1].x, y |-> cs[x1][y1].y]]]

C13_OnlyAliveFieldsChange ==
    /\ pre # <<>> => Fixed(cells) = Fixed(pre[1])
    /\ pc # "makeCells" =>
        Fixed(cells) = Fixed(makeCells([p \in MadeCoords |-> FALSE]))

\* A call has returned that changed alive in one cell and aliveNext in another.
C13_Witness ==
    /\ Returned
    /\ \E p \in Coords(cells) :
        At(cells, p[1], p[2]).alive # At(pre[1], p[1], p[2]).alive
    /\ \E p \in Coords(cells) :
        /\ At(cells, p[1], p[2]).alive = At(pre[1], p[1], p[2]).alive
        /\ At(cells, p[1], p[2]).aliveNext # At(pre[1], p[1], p[2]).aliveNext

C15_DeadHasNextUnset ==
    (pc \in {"loop", "closed", "getNextState"}) =>
        \A p \in Coords(cells) :
            LET c == At(cells, p[1], p[2])
            IN  /\ ~c.alive => ~c.aliveNext
                /\ pre = <<>> => ~c.aliveNext
                /\ pre # <<>> => c.aliveNext = c.alive

\* A call has returned leaving a live cell, whose aliveNext is set, beside a
\* dead one.
C15_Witness ==
    /\ Returned
    /\ \E p \in Coords(cells) :
        At(cells, p[1], p[2]).alive /\ At(cells, p[1], p[2]).aliveNext
    /\ \E p \in Coords(cells) : ~At(cells, p[1], p[2]).alive

(* C16: in the driver loop draw and getNextState alternate strictly, draw     *)
(* first, one advance in every iteration: a draw renders the grid as it is,   *)
(* which is the initial grid at the first draw and afterwards one advance of  *)
(* the grid the draw before it rendered; the call that follows starts from    *)
(* the grid just rendered, and nothing is drawn while it runs. So the n-th    *)
(* draw renders the initial grid advanced n-1 times, each generation once.    *)
C16_Step ==
    /\ (pc = "loop" /\ pc' \notin {"loop", "closed"}) =>
        /\ pc' = "getNextState"
        /\ cells' = cells
        /\ frame' = <<Rendered(cells)>>
        /\ IF pre = <<>> THEN frame = <<>>
           ELSE /\ frame = <<Rendered(pre[1])>>
                /\ cells = getNextState(pre[1]).cells
    /\ (pc = "getNextState" /\ pc' # "getNextState") =>
        /\ pc' \in {"pass1", "loop"}
        /\ cells' = cells
        /\ pre' = <<cells>>
        /\ frame = <<Rendered(cells)>>
        /\ frame' = frame
    /\ InAdvance => pc' \in {"pass1", "pass2", "loop"} /\ frame' = frame /\ pre' = pre
    /\ pc = "closed" => pc' = "closed"

C16_DrawAdvanceAlternate == [][C16_Step]_vars

\* The second or a later draw has rendered a generation that differs from the
\* one rendered before it.
C16_Witness ==
    /\ pc = "getNextState" /\ pre # <<>>
    /\ frame = <<Rendered(cells)>>
    /\ frame # <<Rendered(pre[1])>>
    /\ cells = getNextState(pre[1]).cells

====
